---- MODULE Spec2Model ----
(***************************************************************************)
(* Model of two units of RICE-EIC/ShiftAddNAS:                             *)
(*   - LightconvLayer (NLP/en-de/fairseq/modules/lightconv_layer/          *)
(*     lightconv_layer.py): the incremental decode path, its input buffer  *)
(*     and reorder_incremental_state;                                      *)
(*   - the training driver (CV/searching_v5/train_hy_no_ema.py): __main__  *)
(*     and main(): setup, resume, evaluation-only mode and the epoch loop. *)
(* Tensors are functions over index sets; reals are integers or fractions  *)
(* <<numerator, denominator>>.                                             *)
(***************************************************************************)
EXTENDS Integers, Sequences, FiniteSets, TLC

VARIABLES
    \* ---- LightconvLayer ----
    kernel_size,        \* self.kernel_size (K)
    num_heads,          \* self.num_heads (H)
    weight_softmax,     \* self.weight_softmax
    weight,             \* self.weight, H x K
    incremental_state,  \* handle -> <<>> (no 'input_buffer' entry) or <<buffer>>
    output,             \* <<>> or <<result of the last forward call>>
    last_call,          \* the last call on the layer: [op, h, new_order]
    handles,            \* the state handles the caller has created
    calls,              \* number of forward calls made so far
    hist,               \* history: handle -> frames fed so far, in the
                        \* handle's current batch order
    padding_l,          \* self.padding_l
    weight_dropout,     \* self.weight_dropout, in tenths
    num_bits,           \* self.num_bits, the constructor's bit-width
    num_bits_grad,      \* self.num_bits_grad, the constructor's gradient bit-width
    quantize_input,     \* self.quantize_input, the running min/max tracker
    passed,             \* the last bulk call: what it quantized and what it
                        \* handed to lightconvFunction.apply
    \* ---- training driver ----
    args,               \* the parsed command line (shared by all workers)
    checkpoint,         \* content of the file args.resume names
    params,             \* parameter names of the model create_model builds
    world,              \* ranks of the worker processes; rank 0 is the main one
    pc,                 \* rank -> position in __main__ / main
    model,              \* rank -> parameter name -> value (model_without_ddp)
    optimizer,          \* rank -> optimizer state: training passes it reflects
    lr_scheduler,       \* rank -> scheduler state: last epoch stepped, -1 if none
    mixup_fn,           \* rank -> whether the Mixup label transform is installed
    criterion,          \* rank -> [kind, smoothing], the loss selected
    start_epoch,        \* rank -> args.start_epoch of that process
    iter,               \* rank -> next value of range(args.start_epoch, args.epochs)
    epoch,              \* rank -> loop variable epoch
    sampler_epoch,      \* rank -> epoch last given to sampler.set_epoch, -1 if none
    max_accuracy,       \* rank -> max_accuracy
    test_acc,           \* rank -> test_stats["acc1"] of the last validation pass
    lr,                 \* rank -> args.lr of that process, a fraction
    optimizer_lr,       \* rank -> <<>> or <<the lr create_optimizer was given>>
    scheduler_lr,       \* rank -> <<>> or <<the lr create_scheduler was given>>
    checkpoint_pth,     \* output_dir/checkpoint.pth: <<>> or <<record>>
    best_ckpt_pth,      \* output_dir/best_ckpt.pth: <<>> or <<record>>
    log_txt,            \* output_dir/log.txt: sequence of lines
    \* ---- observations of a run (not program state) ----
    trained,            \* rank -> epochs trained so far, in order
    evals,              \* rank -> number of validation passes run
    steps,              \* rank -> steps done in the current loop iteration
    seen                \* [epoch, acc] of rank 0's validation passes in the loop

quantVars == <<padding_l, weight_dropout, num_bits, num_bits_grad, quantize_input, passed>>
convVars == <<kernel_size, num_heads, weight_softmax, weight,
              incremental_state, output, last_call, handles, calls, hist, quantVars>>

cfgVars == <<args, checkpoint, params, world>>
procVars == <<pc, model, optimizer, lr_scheduler, mixup_fn, criterion, start_epoch,
              iter, epoch, sampler_epoch, max_accuracy, test_acc>>
fileVars == <<checkpoint_pth, best_ckpt_pth, log_txt>>
obsVars == <<trained, evals, steps, seen>>
lrVars == <<lr, optimizer_lr, scheduler_lr>>
mainVars == <<cfgVars, procVars, fileVars, obsVars, lrVars>>

vars == <<convVars, mainVars>>

----------------------------------------------------------------------------
(* Bounds *)
MaxK == 3           \* kernel widths 1..MaxK
MaxCalls == 3       \* forward calls per run of the layer model
MaxBulkCalls == 2   \* of which calls on the bulk path

Handles == {"A", "B"}
Batch == {1, 2}     \* batch entries (B = 2)
Chan == {1, 2}      \* channels (C = 2)
BatchSize == Cardinality(Batch)
Channels == Cardinality(Chan)
HeadCounts == {h \in 1..Channels : Channels % h = 0}

(* Frames fed to the layer: one time step, B x C, all entries distinct so  *)
(* that a mix-up of time step, batch entry or channel shows.               *)
FrameIds == {0, 1}
Frame(v) == [b \in Batch |-> [c \in Chan |->
                v * BatchSize * Channels + (b - 1) * Channels + c]]
Frames == {Frame(v) : v \in FrameIds}
NewOrders == [Batch -> Batch]
IdentityOrder == [b \in Batch |-> b]
BatchPerms == {p \in NewOrders : \A b \in Batch : \E a \in Batch : p[a] = b}

(* Kernels the layer may hold: distinct entries, ascending or descending.  *)
Kernels(K, H) ==
    { [h \in 1..H |-> [k \in 1..K |-> (h - 1) * K + k]],
      [h \in 1..H |-> [k \in 1..K |-> H * K + 1 - ((h - 1) * K + k)]] }

----------------------------------------------------------------------------
(* Arithmetic helpers *)
Pow2(n) == 2 ^ n

RECURSIVE SumTo(_, _)
\* f[1] + ... + f[n]
SumTo(f, n) == IF n = 0 THEN 0 ELSE f[n] + SumTo(f, n - 1)

Min(a, b) == IF a <= b THEN a ELSE b
Max(a, b) == IF a >= b THEN a ELSE b

\* equality of fractions <<n, d>>
FracEq(p, q) == p[1] * q[2] = q[1] * p[2]

\* equality of B x C tensors of fractions
TensorEq(o1, o2) == \A b \in Batch : \A c \in Chan : FracEq(o1[b][c], o2[b][c])

----------------------------------------------------------------------------
(* LightconvLayer *)

\* F.softmax(weight, dim=1): exp is modelled by 2^w; entry k of a row is the
\* fraction SoftmaxNum / SoftmaxDen, the sum running over the whole row.
SoftmaxNum(row, k) == Pow2(row[k])
SoftmaxDen(row) == SumTo([j \in 1..Len(row) |-> Pow2(row[j])], Len(row))

\* the kernel as used by forward, softmax-normalized if weight_softmax:
\* entry (h, k) is WNum(w, softmax, h, k) / WDen(w, softmax, h)
WNum(w, softmax, h, k) == IF softmax THEN SoftmaxNum(w[h], k) ELSE w[h][k]
WDen(w, softmax, h) == IF softmax THEN SoftmaxDen(w[h]) ELSE 1

\* x.view(T*B*H, R, -1): channel c belongs to head (c-1) \div R + 1, R = C // H
HeadOf(c, H) == ((c - 1) \div (Channels \div H)) + 1

\* utils.get_incremental_state(self, incremental_state, 'input_buffer')
GetInputBuffer(state, h) == state[h]

\* utils.set_incremental_state(self, incremental_state, 'input_buffer', new_buffer)
SetInputBufferMutShared(state, h, new_buffer) == [k \in DOMAIN state |-> <<new_buffer>>]
SetInputBuffer(state, h, new_buffer) == [state EXCEPT ![h] = <<new_buffer>>]

\* x_unfold = torch.cat([input_buffer, x.unsqueeze(3)], dim=3)
Unfold(state, h, x) ==
    LET input_buffer == GetInputBuffer(state, h)
    IN  IF input_buffer = <<>> THEN <<x>> ELSE Append(input_buffer[1], x)

\* x_unfold[:, :, :, -self.kernel_size+1:]
RetainedMutKeepK(x_unfold, K) ==
    IF Len(x_unfold) > K THEN SubSeq(x_unfold, Len(x_unfold) - K + 1, Len(x_unfold))
    ELSE x_unfold

Retained(x_unfold, K) ==
    IF Len(x_unfold) > K - 1
    THEN SubSeq(x_unfold, Len(x_unfold) - (K - 1) + 1, Len(x_unfold))
    ELSE x_unfold

\* if self.kernel_size > 1: only then forward stores a buffer
StoresBufferMutAlways(K) == TRUE
StoresBuffer(K) == K > 1

\* weight[:, -x_unfold.size(2):] and torch.bmm(x_unfold, weight):
\* out[b][c] = sum_i x_unfold[i][b][c] * weight[head(c)][K - L + i], L = len
BmmMutSoftmaxAfterSlice(x_unfold, w, K, H, softmax) ==
    LET L  == Len(x_unfold)
        ws == [h \in 1..H |-> [i \in 1..L |-> w[h][K - L + i]]]
    IN  [b \in Batch |-> [c \in Chan |->
            <<SumTo([i \in 1..L |->
                        x_unfold[i][b][c] * WNum(ws, softmax, HeadOf(c, H), i)], L),
              WDen(ws, softmax, HeadOf(c, H))>>]]

Bmm(x_unfold, w, K, H, softmax) ==
    LET L == Len(x_unfold)
    IN  [b \in Batch |-> [c \in Chan |->
            <<SumTo([i \in 1..L |->
                        x_unfold[i][b][c] * WNum(w, softmax, HeadOf(c, H), K - L + i)], L),
              WDen(w, softmax, HeadOf(c, H))>>]]

\* input_buffer.index_select(1, new_order): along the batch dimension
IndexSelectMutChannel(buffer, new_order) ==
    [i \in 1..Len(buffer) |-> [b \in Batch |-> [c \in Chan |-> buffer[i][b][new_order[c]]]]]

IndexSelect(buffer, new_order) ==
    [i \in 1..Len(buffer) |-> [b \in Batch |-> buffer[i][new_order[b]]]]

\* lightconv_cuda.forward(x, weights, padding_l) on a T x B x C input, at
\* position t: out[t] = sum_k w[k] * x[t + k - padding_l], zero outside the
\* input; the weights are those of forward (normalized if softmax)
LightconvCudaAt(xs, w, K, H, softmax, pl, t) ==
    [b \in Batch |-> [c \in Chan |->
        <<SumTo([k \in 1..K |->
                    LET s == t + (k - 1) - pl
                    IN  IF s >= 1 /\ s <= Len(xs)
                        THEN WNum(w, softmax, HeadOf(c, H), k) * xs[s][b][c] ELSE 0], K),
          WDen(w, softmax, HeadOf(c, H))>>]]

\* forward without a state handle, num_bits <= 0, no dropout, no projections:
\* lightconvFunction.apply(x, weight, self.padding_l), position t of the result
BulkForwardAt(xs, w, K, H, softmax, pl, t) ==
    LightconvCudaAt(xs, w, K, H, softmax, pl, t)

(* The bulk path and its quantization.  A tensor handed to the kernel is   *)
(* [num, den]: integer numerators over a common denominator (one for an    *)
(* activation tensor, one per head for a kernel).                          *)

DefaultBits == 8        \* num_bits=8, num_bits_grad=8 of __init__
Momentum == 1           \* momentum=0.1 of QuantMeasure, in tenths
DropoutRates == {0, 5}  \* weight_dropout 0. or 0.5, in tenths

SetMin(S) == CHOOSE m \in S : \A v \in S : m <= v
SetMax(S) == CHOOSE m \in S : \A v \in S : m >= v

\* round(a / b) for b > 0, halves upwards
Round(a, b) == (2 * a + b) \div (2 * b)

\* the state of a QuantMeasure nobody has called
FreshMeasure == [num_measured |-> 0, lo |-> 0, hi |-> 0, den |-> 1]

\* QuantMeasure.forward, calibration: the running minimum and maximum
\* (lo / den, hi / den) move to the current ones with momentum 0.1
Measure(qm, xs) ==
    LET vals == {xs[t][b][c] : t \in 1..Len(xs), b \in Batch, c \in Chan}
    IN  IF qm.num_measured = 0
        THEN [num_measured |-> 1, lo |-> SetMin(vals), hi |-> SetMax(vals), den |-> 1]
        ELSE [num_measured |-> qm.num_measured + 1,
              lo  |-> qm.lo * Momentum + SetMin(vals) * qm.den * (10 - Momentum),
              hi  |-> qm.hi * Momentum + SetMax(vals) * qm.den * (10 - Momentum),
              den |-> qm.den * 10]

\* quantize(v, qparams): the value vnum / vden on the grid of 2^bits levels
\* over [lo / den, hi / den], as a numerator over den * (2^bits - 1) * vden
Quantize(vnum, vden, lo, hi, den, bits) ==
    LET n == Pow2(bits) - 1
        q == IF hi = lo THEN 0
             ELSE Max(0, Min(n, Round((vnum * den - lo * vden) * n, vden * (hi - lo))))
    IN  (q * (hi - lo) + lo * n) * vden

\* self.quantize_input(x, num_bits): x on the grid of the tracker's range
QuantizeInput(qm, xs, bits) ==
    [num |-> [t \in 1..Len(xs) |-> [b \in Batch |-> [c \in Chan |->
                 Quantize(xs[t][b][c], 1, qm.lo, qm.hi, qm.den, bits)]]],
     den |-> qm.den * (Pow2(bits) - 1)]

\* calculate_qparams(weight, flatten_dims=(1, -1), reduce_dim=None): the
\* minimum and the range of each row of the kernel
CalculateQparams(wt, K, H) ==
    [h \in 1..H |-> [lo |-> SetMin({wt.num[h][k] : k \in 1..K}),
                     hi |-> SetMax({wt.num[h][k] : k \in 1..K})]]

\* quantize(weight, qparams=weight_qparams)
QuantizeWeight(wt, qp, K, H, bits) ==
    [num |-> [h \in 1..H |-> [k \in 1..K |->
                 Quantize(wt.num[h][k], 1, qp[h].lo, qp[h].hi, 1, bits)]],
     den |-> [h \in 1..H |-> wt.den[h] * (Pow2(bits) - 1)]]

\* the Bernoulli masks F.dropout may draw
DropMasks(K, H) ==
    << [h \in 1..H |-> [k \in 1..K |-> 1]],
       [h \in 1..H |-> [k \in 1..K |-> IF k = 1 THEN 0 ELSE 1]] >>

\* the weight of the bulk path: softmax over the kernel width if
\* weight_softmax, then dropout if self.weight_dropout (active in training)
KernelWeightMutRaw(w, softmax, K, H, rate, training, mask) ==
    [num |-> [h \in 1..H |-> [k \in 1..K |-> w[h][k]]],
     den |-> [h \in 1..H |-> 1]]

KernelWeight(w, softmax, K, H, rate, training, mask) ==
    IF rate # 0 /\ training
    THEN [num |-> [h \in 1..H |-> [k \in 1..K |->
                      WNum(w, softmax, h, k) * mask[h][k] * 10]],
          den |-> [h \in 1..H |-> WDen(w, softmax, h) * (10 - rate)]]
    ELSE [num |-> [h \in 1..H |-> [k \in 1..K |-> WNum(w, softmax, h, k)]],
          den |-> [h \in 1..H |-> WDen(w, softmax, h)]]

\* if num_bits > 0 / if num_bits_grad > 0
QuantizeEnabledMutGeq(bits) == bits >= 0
QuantizeEnabled(bits) == bits > 0

\* lightconv_cuda.forward(x, weights, padding_l) on the tensors handed over
LightconvCuda(x, wt, K, H, pl) ==
    [t \in 1..Len(x.num) |-> [b \in Batch |-> [c \in Chan |->
        <<SumTo([k \in 1..K |->
                    LET s == t + (k - 1) - pl
                    IN  IF s >= 1 /\ s <= Len(x.num)
                        THEN wt.num[HeadOf(c, H)][k] * x.num[s][b][c] ELSE 0], K),
          wt.den[HeadOf(c, H)] * x.den>>]]]

\* the attributes __init__ stores, and the fresh activation tracker
InitAttrs(pl, wd, nb, nbg) ==
    /\ padding_l = pl
    /\ weight_dropout = wd
    /\ num_bits = nb
    /\ num_bits_grad = nbg
    /\ quantize_input = FreshMeasure
    /\ passed = <<>>

InitConv ==
    /\ kernel_size \in 1..MaxK
    /\ num_heads \in HeadCounts
    /\ weight_softmax \in BOOLEAN
    /\ weight \in Kernels(kernel_size, num_heads)
    /\ incremental_state = [h \in Handles |-> <<>>]
    /\ output = <<>>
    /\ last_call = [op |-> "none", h |-> "none", new_order |-> IdentityOrder]
    /\ handles = {"A"}
    /\ calls = 0
    /\ hist = [h \in Handles |-> <<>>]
    /\ InitAttrs(kernel_size - 1, 0, DefaultBits, DefaultBits)

\* LightconvLayer.forward(x, incremental_state=h): the incremental path
ForwardIncremental(h, x) ==
    /\ calls < MaxCalls
    /\ LET x_unfold == Unfold(incremental_state, h, x)
       IN  /\ incremental_state' =
                 IF StoresBuffer(kernel_size)
                 THEN SetInputBuffer(incremental_state, h, Retained(x_unfold, kernel_size))
                 ELSE incremental_state
           /\ output' = <<Bmm(x_unfold, weight, kernel_size, num_heads, weight_softmax)>>
    /\ last_call' = [op |-> "forward", h |-> h, new_order |-> IdentityOrder]
    /\ calls' = calls + 1
    /\ hist' = [hist EXCEPT ![h] = Append(@, x)]
    /\ UNCHANGED <<kernel_size, num_heads, weight_softmax, weight, handles, quantVars>>
    /\ UNCHANGED mainVars

\* LightconvLayer.reorder_incremental_state(h, new_order)
ReorderIncrementalState(h, new_order) ==
    /\ LET input_buffer == GetInputBuffer(incremental_state, h)
       IN  incremental_state' =
              IF input_buffer # <<>>
              THEN SetInputBuffer(incremental_state, h, IndexSelect(input_buffer[1], new_order))
              ELSE incremental_state
    /\ hist' = [hist EXCEPT ![h] =
                  [i \in 1..Len(@) |-> [b \in Batch |-> @[i][new_order[b]]]]]
    /\ last_call' = [op |-> "reorder", h |-> h, new_order |-> new_order]
    /\ UNCHANGED <<kernel_size, num_heads, weight_softmax, weight, output,
                   handles, calls, quantVars>>
    /\ UNCHANGED mainVars

\* inputs of the bulk path: T x B x C with T = 1 or 2; bit-widths of a call
BulkInputs == {<<Frame(0)>>, <<Frame(1), Frame(0)>>}
\* <<num_bits, num_bits_grad>> of a call
BitWidths == {<<-1, -1>>, <<0, 0>>, <<2, -1>>, <<-1, 2>>, <<2, 2>>}
\* <<self.training, index of the dropout draw>>
Modes == {<<FALSE, 1>>, <<TRUE, 1>>, <<TRUE, 2>>}

\* LightconvLayer.forward(x, None, num_bits=nb, num_bits_grad=nbg): the bulk
\* path, in training or evaluation mode, mask being the dropout draw
BulkForward(xs, nb, nbg, training, mask) ==
    /\ calls < MaxBulkCalls
    /\ LET wv   == KernelWeight(weight, weight_softmax, kernel_size, num_heads,
                                weight_dropout, training, mask)
           qm   == IF QuantizeEnabled(nb) THEN Measure(quantize_input, xs)
                   ELSE quantize_input
           qx   == IF QuantizeEnabled(nb) THEN QuantizeInput(qm, xs, nb)
                   ELSE [num |-> xs, den |-> 1]
           qweight == IF QuantizeEnabled(nb)
                      THEN QuantizeWeight(wv, CalculateQparams(wv, kernel_size, num_heads),
                                          kernel_size, num_heads, nb)
                      ELSE wv
       IN  /\ quantize_input' = qm
           /\ output' = <<LightconvCuda(qx, qweight, kernel_size, num_heads, padding_l)>>
           /\ passed' = <<[x |-> qx, weight |-> qweight, xs |-> xs,
                           num_bits |-> nb, num_bits_grad |-> nbg,
                           training |-> training, mask |-> mask,
                           input_quantized  |-> QuantizeEnabled(nb),
                           weight_quantized |-> QuantizeEnabled(nb),
                           grad_quantized   |-> QuantizeEnabled(nbg),
                           measured_before  |-> quantize_input.num_measured]>>
    /\ last_call' = [op |-> "bulk", h |-> "none", new_order |-> IdentityOrder]
    /\ calls' = calls + 1
    /\ UNCHANGED <<kernel_size, num_heads, weight_softmax, weight, incremental_state,
                   handles, hist, padding_l, weight_dropout, num_bits, num_bits_grad>>
    /\ UNCHANGED mainVars

NextBulk ==
    \E xs \in BulkInputs, bits \in BitWidths, mode \in Modes :
        BulkForward(xs, bits[1], bits[2], mode[1],
                    DropMasks(kernel_size, num_heads)[mode[2]])

NextConv ==
    \/ \E h \in handles, x \in Frames : ForwardIncremental(h, x)
    \/ \E h \in handles, p \in BatchPerms : ReorderIncrementalState(h, p)

----------------------------------------------------------------------------
(* Training driver: CV/searching_v5/train_hy_no_ema.py *)

MaxEpochs == 3          \* args.epochs and checkpoint epochs range over 0..MaxEpochs
MaxDistEpochs == 2      \* the same, in runs with several workers

Accuracies == {0, 1, 2}         \* values of test_stats["acc1"]
Ranks == {0, 1}                 \* ranks of a run with several workers

\* the exclusion list of main (one of its entries) and a name that is not in it
names == {"_blocks.0._block_layers.0._mix_ops.11.conv1.weight"}
OtherNames == {"head.weight"}

ResumeKeys == {"optimizer", "lr_scheduler", "epoch"}

\* a checkpoint file written by an earlier run at epoch e: parameters keys,
\* the resume fields in has
CheckpointFile(keys, has, e) ==
    [model        |-> [k \in keys |-> 1],
     has          |-> has,
     optimizer    |-> IF "optimizer" \in has THEN e + 1 ELSE 0,
     lr_scheduler |-> IF "lr_scheduler" \in has THEN e ELSE 0,
     epoch        |-> IF "epoch" \in has THEN e ELSE 0]

NoCheckpoint == CheckpointFile({}, {}, 0)

\* a line of log.txt; writer is the rank that appended it (-1: copied from the
\* restored log), an observation that is not in the file
LogLine(e, acc, w) == [epoch |-> e, test_acc1 |-> acc, writer |-> w]

DefaultLr == 5              \* --lr, default 5e-4, in units of 1e-4
DefaultBatchSize == 64      \* --batch-size, default 64
ReferenceBatchSize == 512   \* the 512.0 of linear_scaled_lr

\* the command line
Args(ev, res, eps, st, mx, cm, mm, sm, rl, dist) ==
    [eval |-> ev, resume |-> res, epochs |-> eps, start_epoch |-> st,
     mixup |-> mx, cutmix |-> cm, cutmix_minmax |-> mm, smoothing |-> sm,
     restore_log |-> rl, distributed |-> dist,
     lr |-> DefaultLr, batch_size |-> DefaultBatchSize,
     \* __main__ joins the given directory with a run name: never empty
     output_dir |-> TRUE]

\* utils.is_main_process()
IsMainProcess(w) == w = 0

\* the epoch attribute of sampler_train: 0 from its construction until
\* set_epoch is called
SamplerEpoch(w) == IF sampler_epoch[w] = -1 THEN 0 ELSE sampler_epoch[w]

\* utils.get_world_size(): the number of workers of a distributed run, else 1
GetWorldSize == IF args.distributed THEN Cardinality(world) ELSE 1

\* linear_scaled_lr = args.lr * args.batch_size * utils.get_world_size() / 512.0
LinearScaledLrMutNoWorldSize(cur, batch_size, world_size) ==
    <<cur[1] * batch_size, cur[2] * ReferenceBatchSize>>
LinearScaledLr(cur, batch_size, world_size) ==
    <<cur[1] * batch_size * world_size, cur[2] * ReferenceBatchSize>>


\* mixup_active = args.mixup > 0 or args.cutmix > 0. or args.cutmix_minmax is not None
MixupActive(a) == a.mixup > 0 \/ a.cutmix > 0 \/ a.cutmix_minmax # <<>>

\* the selection of criterion
Criterion(a) ==
    IF a.mixup > 0
    THEN [kind |-> "SoftTargetCrossEntropy", smoothing |-> 0]
    ELSE IF a.smoothing # 0
         THEN [kind |-> "LabelSmoothingCrossEntropy", smoothing |-> a.smoothing]
         ELSE [kind |-> "CrossEntropyLoss", smoothing |-> 0]

\* my_load_state_dict(state_dict, names): the entries whose key is not in names
my_load_state_dict(state_dict, nms) ==
    [k \in (DOMAIN state_dict) \ nms |-> state_dict[k]]

\* model_without_ddp.load_state_dict(ckpt), strict by default: parameters with
\* a key in ckpt are overwritten; a missing or an unexpected key raises.
LoadStateDict(m, ckpt) ==
    [k \in DOMAIN m |-> IF k \in DOMAIN ckpt THEN ckpt[k] ELSE m[k]]
LoadStateDictRaises(m, ckpt) == DOMAIN m # DOMAIN ckpt

\* not args.eval and 'optimizer' in checkpoint and 'lr_scheduler' in checkpoint
\* and 'epoch' in checkpoint
RestoreCondition(a, ckpt) == ~a.eval /\ ResumeKeys \subseteq ckpt.has

\* args.start_epoch = checkpoint['epoch'] + 1
ResumedStartEpoch(ckpt) == ckpt.epoch + 1

\* where main goes after the validation pass of evaluation mode: return
AfterEval == "done"

\* the order of the steps of one loop iteration
AfterMutEvalBeforeSave(step) ==
    CASE step = "train"    -> "lr_step"
      [] step = "lr_step"  -> "evaluate"
      [] step = "evaluate" -> "save"
      [] step = "save"     -> "best"
      [] step = "best"     -> "log"
      [] step = "log"      -> "loop"
AfterMutSkipLog(step) ==
    CASE step = "train"    -> "lr_step"
      [] step = "lr_step"  -> "save"
      [] step = "save"     -> "evaluate"
      [] step = "evaluate" -> "best"
      [] step = "best"     -> "loop"
      [] step = "log"      -> "loop"
After(step) ==
    CASE step = "train"    -> "lr_step"
      [] step = "lr_step"  -> "save"
      [] step = "save"     -> "evaluate"
      [] step = "evaluate" -> "best"
      [] step = "best"     -> "log"
      [] step = "log"      -> "loop"

\* the dictionary both checkpoint writes save (of 'args', the learning rate)
CheckpointRecord(w) ==
    [model |-> model[w], optimizer |-> optimizer[w],
     lr_scheduler |-> lr_scheduler[w], epoch |-> epoch[w],
     args |-> [lr |-> lr[w]]]

\* utils.save_on_master(record, path): only the main process writes
SaveOnMaster(w, file, record) == IF IsMainProcess(w) THEN <<record>> ELSE file

\* test_stats["acc1"] > max_accuracy
BetterThanMutGeq(acc, best) == acc >= best
BetterThan(acc, best) == acc > best

\* args.output_dir and utils.is_main_process()
MayAppendLogMutAnyRank(w) == args.output_dir
MayAppendLog(w) == args.output_dir /\ IsMainProcess(w)

\* the state of the processes before __main__ runs
InitMain(a, ckpt, prm, ws) ==
    /\ args = a
    /\ checkpoint = ckpt
    /\ params = prm
    /\ world = ws
    /\ pc = [w \in ws |-> "start"]
    /\ model = [w \in ws |-> [k \in prm |-> 0]]
    /\ optimizer = [w \in ws |-> 0]
    /\ lr_scheduler = [w \in ws |-> -1]
    /\ mixup_fn = [w \in ws |-> FALSE]
    /\ criterion = [w \in ws |-> [kind |-> "none", smoothing |-> 0]]
    /\ start_epoch = [w \in ws |-> a.start_epoch]
    /\ iter = [w \in ws |-> 0]
    /\ epoch = [w \in ws |-> -1]
    /\ sampler_epoch = [w \in ws |-> -1]
    /\ max_accuracy = [w \in ws |-> 0]
    /\ test_acc = [w \in ws |-> 0]
    /\ lr = [w \in ws |-> <<a.lr, 1>>]
    /\ optimizer_lr = [w \in ws |-> <<>>]
    /\ scheduler_lr = [w \in ws |-> <<>>]
    /\ checkpoint_pth = <<>>
    /\ best_ckpt_pth = <<>>
    /\ log_txt = <<>>
    /\ trained = [w \in ws |-> <<>>]
    /\ evals = [w \in ws |-> 0]
    /\ steps = [w \in ws |-> <<>>]
    /\ seen = <<>>

\* the driver is not run
MainIdle ==
    InitMain(Args(FALSE, FALSE, 0, 0, 0, 0, <<>>, 0, <<>>, FALSE), NoCheckpoint, {}, {})

\* the layer is not used
ConvIdle ==
    /\ kernel_size = 1
    /\ num_heads = 1
    /\ weight_softmax = FALSE
    /\ weight = [h \in {1} |-> [k \in {1} |-> 1]]
    /\ incremental_state = [h \in Handles |-> <<>>]
    /\ output = <<>>
    /\ last_call = [op |-> "none", h |-> "none", new_order |-> IdentityOrder]
    /\ handles = {}
    /\ calls = 0
    /\ hist = [h \in Handles |-> <<>>]
    /\ InitAttrs(0, 0, DefaultBits, DefaultBits)

\* __main__: make the output directory and copy the restored log into it
Preseed(w) ==
    /\ pc[w] = "start"
    /\ log_txt' = IF args.output_dir /\ args.restore_log # <<>>
                  THEN args.restore_log[1] ELSE log_txt
    /\ pc' = [pc EXCEPT ![w] = "init"]
    /\ UNCHANGED <<convVars, cfgVars, lrVars, model, optimizer, lr_scheduler, mixup_fn, criterion,
                   start_epoch, iter, epoch, sampler_epoch, max_accuracy, test_acc,
                   checkpoint_pth, best_ckpt_pth, obsVars>>

\* utils.init_distributed_mode(args): the worker joins the process group; no
\* state of main changes
InitDistributedMode(w) ==
    /\ pc[w] = "init"
    /\ pc' = [pc EXCEPT ![w] = "setup"]
    /\ UNCHANGED <<convVars, cfgVars, lrVars, model, optimizer, lr_scheduler, mixup_fn, criterion,
                   start_epoch, iter, epoch, sampler_epoch, max_accuracy, test_acc,
                   fileVars, obsVars>>

\* main up to the resume block: the Mixup transform and the criterion
Setup(w) ==
    /\ pc[w] = "setup"
    /\ mixup_fn' = [mixup_fn EXCEPT ![w] = MixupActive(args)]
    /\ criterion' = [criterion EXCEPT ![w] = Criterion(args)]
    /\ lr' = [lr EXCEPT ![w] = LinearScaledLr(lr[w], args.batch_size, GetWorldSize)]
    /\ optimizer_lr' = [optimizer_lr EXCEPT ![w] = <<lr'[w]>>]
    /\ scheduler_lr' = [scheduler_lr EXCEPT ![w] = <<lr'[w]>>]
    /\ pc' = [pc EXCEPT ![w] = "resume"]
    /\ UNCHANGED <<convVars, cfgVars, model, optimizer, lr_scheduler, start_epoch, iter, epoch,
                   sampler_epoch, max_accuracy, test_acc, fileVars, obsVars>>

\* if args.resume: load the parameters and, under the restore condition, the
\* optimizer, the scheduler and the starting epoch
Resume(w) ==
    /\ pc[w] = "resume"
    /\ IF ~args.resume
       THEN /\ pc' = [pc EXCEPT ![w] = "dispatch"]
            /\ UNCHANGED <<model, optimizer, lr_scheduler, start_epoch>>
       ELSE LET ckpt == my_load_state_dict(checkpoint.model, names)
            IN  /\ model' = [model EXCEPT ![w] = LoadStateDict(@, ckpt)]
                /\ IF LoadStateDictRaises(model[w], ckpt)
                   THEN /\ pc' = [pc EXCEPT ![w] = "failed"]
                        /\ UNCHANGED <<optimizer, lr_scheduler, start_epoch>>
                   ELSE /\ pc' = [pc EXCEPT ![w] = "dispatch"]
                        /\ IF RestoreCondition(args, checkpoint)
                           THEN /\ optimizer' = [optimizer EXCEPT ![w] = checkpoint.optimizer]
                                /\ lr_scheduler' =
                                      [lr_scheduler EXCEPT ![w] = checkpoint.lr_scheduler]
                                /\ start_epoch' =
                                      [start_epoch EXCEPT ![w] = ResumedStartEpoch(checkpoint)]
                           ELSE UNCHANGED <<optimizer, lr_scheduler, start_epoch>>
    /\ UNCHANGED <<convVars, cfgVars, lrVars, mixup_fn, criterion, iter, epoch, sampler_epoch,
                   max_accuracy, test_acc, fileVars, obsVars>>

\* if args.eval: one validation pass, then return
EvalOnly(w, acc) ==
    /\ pc[w] = "dispatch"
    /\ args.eval
    /\ test_acc' = [test_acc EXCEPT ![w] = acc]
    /\ evals' = [evals EXCEPT ![w] = @ + 1]
    /\ pc' = [pc EXCEPT ![w] = AfterEval]
    /\ UNCHANGED <<convVars, cfgVars, lrVars, model, optimizer, lr_scheduler, mixup_fn, criterion,
                   start_epoch, iter, epoch, sampler_epoch, max_accuracy,
                   fileVars, trained, steps, seen>>

\* "Start training": max_accuracy = 0.0 and the loop's range
StartTraining(w) ==
    /\ pc[w] = "dispatch"
    /\ ~args.eval
    /\ max_accuracy' = [max_accuracy EXCEPT ![w] = 0]
    /\ iter' = [iter EXCEPT ![w] = start_epoch[w]]
    /\ pc' = [pc EXCEPT ![w] = "loop"]
    /\ UNCHANGED <<convVars, cfgVars, lrVars, model, optimizer, lr_scheduler, mixup_fn, criterion,
                   start_epoch, epoch, sampler_epoch, test_acc, fileVars, obsVars>>

\* for epoch in range(args.start_epoch, args.epochs): the next iteration (with
\* sampler.set_epoch in a distributed run) or the end of main
LoopHead(w) ==
    /\ pc[w] = "loop"
    /\ IF iter[w] < args.epochs
       THEN /\ epoch' = [epoch EXCEPT ![w] = iter[w]]
            /\ iter' = [iter EXCEPT ![w] = @ + 1]
            /\ sampler_epoch' = IF args.distributed
                                THEN [sampler_epoch EXCEPT ![w] = iter[w]]
                                ELSE sampler_epoch
            /\ steps' = [steps EXCEPT ![w] = <<>>]
            /\ pc' = [pc EXCEPT ![w] = "train"]
       ELSE /\ pc' = [pc EXCEPT ![w] = "done"]
            /\ UNCHANGED <<epoch, iter, sampler_epoch, steps>>
    /\ UNCHANGED <<convVars, cfgVars, lrVars, model, optimizer, lr_scheduler, mixup_fn, criterion,
                   start_epoch, max_accuracy, test_acc, fileVars, trained, evals, seen>>

\* train_one_epoch: in a distributed run the gradient exchange of
\* DistributedDataParallel needs every rank to be in this epoch
TrainOneEpoch(w) ==
    /\ pc[w] = "train"
    /\ args.distributed => \A v \in world : iter[v] > epoch[w]
    /\ model' = [model EXCEPT ![w] = [k \in DOMAIN @ |-> @[k] + 10]]
    /\ optimizer' = [optimizer EXCEPT ![w] = @ + 1]
    /\ trained' = [trained EXCEPT ![w] = Append(@, epoch[w])]
    /\ steps' = [steps EXCEPT ![w] = Append(@, "train")]
    /\ pc' = [pc EXCEPT ![w] = After("train")]
    /\ UNCHANGED <<convVars, cfgVars, lrVars, lr_scheduler, mixup_fn, criterion, start_epoch, iter,
                   epoch, sampler_epoch, max_accuracy, test_acc, fileVars, evals, seen>>

\* lr_scheduler.step(epoch)
LrStep(w) ==
    /\ pc[w] = "lr_step"
    /\ lr_scheduler' = [lr_scheduler EXCEPT ![w] = epoch[w]]
    /\ steps' = [steps EXCEPT ![w] = Append(@, "lr_step")]
    /\ pc' = [pc EXCEPT ![w] = After("lr_step")]
    /\ UNCHANGED <<convVars, cfgVars, lrVars, model, optimizer, mixup_fn, criterion, start_epoch, iter,
                   epoch, sampler_epoch, max_accuracy, test_acc, fileVars,
                   trained, evals, seen>>

\* the rolling checkpoint: output_dir / 'checkpoint.pth'
SaveCheckpoint(w) ==
    /\ pc[w] = "save"
    /\ checkpoint_pth' = IF args.output_dir
                         THEN SaveOnMaster(w, checkpoint_pth, CheckpointRecord(w))
                         ELSE checkpoint_pth
    /\ steps' = [steps EXCEPT ![w] = Append(@, "save")]
    /\ pc' = [pc EXCEPT ![w] = After("save")]
    /\ UNCHANGED <<convVars, cfgVars, lrVars, model, optimizer, lr_scheduler, mixup_fn, criterion,
                   start_epoch, iter, epoch, sampler_epoch, max_accuracy, test_acc,
                   best_ckpt_pth, log_txt, trained, evals, seen>>

\* test_stats = evaluate(data_loader_val, model, device)
Evaluate(w, acc) ==
    /\ pc[w] = "evaluate"
    /\ test_acc' = [test_acc EXCEPT ![w] = acc]
    /\ evals' = [evals EXCEPT ![w] = @ + 1]
    /\ seen' = IF IsMainProcess(w) THEN Append(seen, [epoch |-> epoch[w], acc |-> acc])
               ELSE seen
    /\ steps' = [steps EXCEPT ![w] = Append(@, "evaluate")]
    /\ pc' = [pc EXCEPT ![w] = After("evaluate")]
    /\ UNCHANGED <<convVars, cfgVars, lrVars, model, optimizer, lr_scheduler, mixup_fn, criterion,
                   start_epoch, iter, epoch, sampler_epoch, max_accuracy,
                   fileVars, trained>>

\* save best ckpt, then max_accuracy = max(max_accuracy, test_stats["acc1"])
SaveBest(w) ==
    /\ pc[w] = "best"
    /\ best_ckpt_pth' = IF BetterThan(test_acc[w], max_accuracy[w]) /\ args.output_dir
                        THEN SaveOnMaster(w, best_ckpt_pth, CheckpointRecord(w))
                        ELSE best_ckpt_pth
    /\ max_accuracy' = [max_accuracy EXCEPT ![w] = Max(@, test_acc[w])]
    /\ steps' = [steps EXCEPT ![w] = Append(@, "best")]
    /\ pc' = [pc EXCEPT ![w] = After("best")]
    /\ UNCHANGED <<convVars, cfgVars, lrVars, model, optimizer, lr_scheduler, mixup_fn, criterion,
                   start_epoch, iter, epoch, sampler_epoch, test_acc,
                   checkpoint_pth, log_txt, trained, evals, seen>>

\* the append of log_stats to output_dir / "log.txt"
AppendLog(w) ==
    /\ pc[w] = "log"
    /\ log_txt' = IF MayAppendLog(w)
                  THEN Append(log_txt, LogLine(epoch[w], test_acc[w], w))
                  ELSE log_txt
    /\ steps' = [steps EXCEPT ![w] = Append(@, "log")]
    /\ pc' = [pc EXCEPT ![w] = After("log")]
    /\ UNCHANGED <<convVars, cfgVars, lrVars, model, optimizer, lr_scheduler, mixup_fn, criterion,
                   start_epoch, iter, epoch, sampler_epoch, max_accuracy, test_acc,
                   checkpoint_pth, best_ckpt_pth,
                   trained, evals, seen>>

\* a step of one of the run's worker processes
NextMain ==
    \E w \in Ranks :
        \/ w \in world /\ Preseed(w)
        \/ w \in world /\ InitDistributedMode(w)
        \/ w \in world /\ Setup(w)
        \/ w \in world /\ Resume(w)
        \/ \E acc \in Accuracies : w \in world /\ EvalOnly(w, acc)
        \/ w \in world /\ StartTraining(w)
        \/ w \in world /\ LoopHead(w)
        \/ w \in world /\ TrainOneEpoch(w)
        \/ w \in world /\ LrStep(w)
        \/ w \in world /\ SaveCheckpoint(w)
        \/ \E acc \in Accuracies : w \in world /\ Evaluate(w, acc)
        \/ w \in world /\ SaveBest(w)
        \/ w \in world /\ AppendLog(w)

----------------------------------------------------------------------------
(* Runs *)

KeySets == {OtherNames, OtherNames \cup names}
HasChoices == {ResumeKeys} \cup {ResumeKeys \ {k} : k \in ResumeKeys}

\* no resume, or a checkpoint of an earlier run
ResumeChoices(maxEpoch) ==
    {<<FALSE, NoCheckpoint>>}
      \cup {<<TRUE, CheckpointFile(OtherNames \cup names, has, e)>> :
                has \in HasChoices, e \in 0..maxEpoch}

\* the log of an earlier run, given as --restore_log
RestoredLog == <<LogLine(0, 1, -1)>>

\* one worker, one epoch: the augmentation and loss options and the parameter
\* names of model and checkpoint vary
SetupConfigs ==
    {<<Args(ev, res, 1, 0, mx, cm, mm, sm, <<>>, FALSE),
       IF res THEN CheckpointFile(ck, ResumeKeys, 0) ELSE NoCheckpoint, prm, {0}>> :
        ev \in BOOLEAN, res \in BOOLEAN, mx \in {0, 8}, cm \in {0, 10},
        mm \in {<<>>, <<2, 8>>}, sm \in {0, 1}, ck \in KeySets, prm \in KeySets}

\* one worker: evaluation mode, epochs, start epoch and the checkpoint vary
TrainConfigs ==
    {<<Args(ev, rc[1], eps, st, 8, 10, <<>>, 1, <<>>, FALSE), rc[2], prm, {0}>> :
        ev \in BOOLEAN, eps \in 0..MaxEpochs, st \in {0, 1},
        rc \in ResumeChoices(MaxEpochs), prm \in KeySets}

\* a distributed run of one or two workers on one output directory
DistConfigs ==
    {<<Args(ev, rc[1], eps, st, 8, 10, <<>>, 1, rl, TRUE), rc[2], OtherNames, ws>> :
        ev \in BOOLEAN, eps \in 0..MaxDistEpochs, st \in {0, 1},
        rc \in {<<FALSE, NoCheckpoint>>,
                <<TRUE, CheckpointFile(OtherNames \cup names, ResumeKeys, 0)>>},
        rl \in {<<>>, <<RestoredLog>>}, ws \in {{0}, Ranks}}

\* two epochs with one or two workers: the base learning rate, the batch size,
\* the world size and resuming vary
LrConfigs ==
    {<<[Args(ev, rc[1], 2, 0, 8, 10, <<>>, 1, <<>>, wd[1])
            EXCEPT !.lr = l, !.batch_size = b], rc[2], OtherNames, wd[2]>> :
        ev \in BOOLEAN, l \in {DefaultLr, 10}, b \in {DefaultBatchSize, 256},
        wd \in {<<FALSE, {0}>>, <<TRUE, {0}>>, <<TRUE, Ranks>>},
        rc \in {<<FALSE, NoCheckpoint>>,
                <<TRUE, CheckpointFile(OtherNames, ResumeKeys, 0)>>}}

InitLayer == InitConv /\ MainIdle

\* a layer decoding two sessions, handles A and B, and called on the bulk
\* path in between
InitIso ==
    /\ kernel_size \in 1..MaxK
    /\ num_heads = 1
    /\ weight_softmax \in BOOLEAN
    /\ weight = [h \in 1..num_heads |-> [k \in 1..kernel_size |-> k]]
    /\ incremental_state = [h \in Handles |-> <<>>]
    /\ output = <<>>
    /\ last_call = [op |-> "none", h |-> "none", new_order |-> IdentityOrder]
    /\ handles = Handles
    /\ calls = 0
    /\ hist = [h \in Handles |-> <<>>]
    /\ InitAttrs(kernel_size - 1, SetMax(DropoutRates), DefaultBits, DefaultBits)
    /\ MainIdle

NextIso ==
    \/ \E h \in handles, x \in Frames : ForwardIncremental(h, x)
    \/ \E h \in handles, p \in BatchPerms : ReorderIncrementalState(h, p)
    \/ \E bits \in {<<-1, -1>>, <<2, 2>>}, mode \in Modes :
          BulkForward(<<Frame(1), Frame(0)>>, bits[1], bits[2], mode[1],
                      DropMasks(kernel_size, num_heads)[mode[2]])

\* a layer used on the bulk path only: every constructor argument varies
InitQuant ==
    /\ kernel_size \in 1..MaxK
    /\ num_heads \in HeadCounts
    /\ weight_softmax \in BOOLEAN
    /\ weight = [h \in 1..num_heads |-> [k \in 1..kernel_size |-> (h - 1) * kernel_size + k]]
    /\ incremental_state = [h \in Handles |-> <<>>]
    /\ output = <<>>
    /\ last_call = [op |-> "none", h |-> "none", new_order |-> IdentityOrder]
    /\ handles = {}
    /\ calls = 0
    /\ hist = [h \in Handles |-> <<>>]
    /\ \E pl \in {kernel_size - 1, kernel_size \div 2}, wd \in DropoutRates :
          InitAttrs(pl, wd, IF weight_softmax THEN DefaultBits ELSE -1,
                    IF wd = 0 THEN DefaultBits ELSE -1)
    /\ MainIdle
InitSetup == ConvIdle /\ \E c \in SetupConfigs : InitMain(c[1], c[2], c[3], c[4])
InitTrain == ConvIdle /\ \E c \in TrainConfigs : InitMain(c[1], c[2], c[3], c[4])
InitDist == ConvIdle /\ \E c \in DistConfigs : InitMain(c[1], c[2], c[3], c[4])
InitLr == ConvIdle /\ \E c \in LrConfigs : InitMain(c[1], c[2], c[3], c[4])

SpecConv == InitLayer /\ [][NextConv]_vars
SpecQuant == InitQuant /\ [][NextBulk]_vars
SpecIso == InitIso /\ [][NextIso]_vars
SpecSetup == InitSetup /\ [][NextMain]_vars
SpecTrain == InitTrain /\ [][NextMain]_vars
SpecDist == InitDist /\ [][NextMain]_vars
SpecLr == InitLr /\ [][NextMain]_vars

----------------------------------------------------------------------------
(* Properties of LightconvLayer *)

\* the frames retained under handle h (none when no buffer is stored)
Buffered(state, h) == IF state[h] = <<>> THEN <<>> ELSE state[h][1]

\* sum over j in 0..min(t-1, K-1) of w[h][K-1-j] * x[t-j]  (t counted from 1,
\* the kernel indexed from 1), w the kernel normalized over its full width
CausalSum(xs, t) ==
    LET n == Min(t - 1, kernel_size - 1) + 1
    IN  [b \in Batch |-> [c \in Chan |->
            <<SumTo([j \in 1..n |->
                        WNum(weight, weight_softmax, HeadOf(c, num_heads),
                             kernel_size - (j - 1)) * xs[t - (j - 1)][b][c]], n),
              WDen(weight, weight_softmax, HeadOf(c, num_heads))>>]]

\* position t of the bulk path run over xs with left padding K-1
BulkAt(xs, t) ==
    BulkForwardAt(xs, weight, kernel_size, num_heads, weight_softmax, kernel_size - 1, t)

\* C1: after N incremental forward calls on a handle the retained buffer holds
\* exactly min(N, K-1) frames, the most recent ones in arrival order.
C1_BufferHoldsLatest ==
    \A h \in Handles :
        LET N   == Len(hist[h])
            m   == Min(N, kernel_size - 1)
            buf == Buffered(incremental_state, h)
        IN  /\ Len(buf) = m
            /\ \A i \in 1..m : buf[i] = hist[h][N - m + i]

\* C1 witness: more calls than the buffer retains, so a frame was dropped
C1_Witness ==
    \E h \in Handles :
        /\ kernel_size >= 2
        /\ Len(hist[h]) > kernel_size - 1
        /\ Len(Buffered(incremental_state, h)) = kernel_size - 1

\* C2: the output of incremental step t equals position t of the bulk path run
\* over x[0..t] with left padding K-1, which is the causal sum over the last
\* min(t, K-1)+1 frames with the kernel normalized over its full width.
C2_IncrementalMatchesBulk ==
    last_call.op = "forward" =>
        LET xs == hist[last_call.h]
            t  == Len(xs)
        IN  /\ TensorEq(output[1], CausalSum(xs, t))
            /\ TensorEq(output[1], BulkAt(xs, t))

\* C2 witness: an early step (truncated kernel) and a late step (full kernel)
\* both occur; the state shown is a softmax layer on a truncated window.
C2_Witness ==
    /\ last_call.op = "forward"
    /\ weight_softmax
    /\ kernel_size >= 3
    /\ Len(hist[last_call.h]) = 2
    /\ num_heads = 2

\* what forward would return for frame x on handle h in the given state
NextOutput(state, h, x) ==
    Bmm(Unfold(state, h, x), weight, kernel_size, num_heads, weight_softmax)

\* the history of a session whose batch entries were in order p from the start
Reordered(xs, p) == [i \in 1..Len(xs) |-> [b \in Batch |-> xs[i][p[b]]]]

\* every continuation of the decode session agrees with the bulk path on the
\* handle's history
C3_DecodeEquivalent ==
    \A h \in Handles : \A x \in Frames :
        LET xs == Append(hist[h], x)
        IN  TensorEq(NextOutput(incremental_state, h, x), BulkAt(xs, Len(xs)))

\* a step that is a call of reorder_incremental_state(h, p)
C3_ReorderStep ==
    last_call'.op = "reorder" =>
        LET h == last_call'.h
            p == last_call'.new_order
        IN  /\ (incremental_state[h] = <<>> => incremental_state' = incremental_state)
            /\ Len(Buffered(incremental_state', h)) = Len(Buffered(incremental_state, h))
            /\ \A x \in Frames :
                  LET xs == Append(Reordered(hist[h], p), x)
                  IN  TensorEq(NextOutput(incremental_state', h, x), BulkAt(xs, Len(xs)))

\* C3: reordering with a permutation p and continuing to decode gives the
\* outputs of a session that was in order p from the first call; a reorder on
\* a handle without a buffer changes nothing, and no reorder changes the
\* number of buffered frames.
C3_ReorderThenDecode == [][C3_ReorderStep]_vars /\ []C3_DecodeEquivalent

\* C3 witness: a forward call made after a non-identity reorder of a
\* non-empty buffer
C3_Witness ==
    /\ last_call.op = "reorder"
    /\ last_call.new_order # IdentityOrder
    /\ Len(Buffered(incremental_state, last_call.h)) >= 2

\* the session of handle h has made a forward call
Started(h) == hist[h] # <<>>

\* C13 as claimed: for every K >= 1 a session that made a forward call has a
\* buffer stored under its handle, of at most K-1 frames.
C13_BufferedAfterFirstCall ==
    \A h \in Handles :
        /\ ~Started(h) => incremental_state[h] = <<>>
        /\ Started(h) => incremental_state[h] # <<>>
        /\ Len(Buffered(incremental_state, h)) <= kernel_size - 1

C13_States ==
    \A h \in Handles :
        /\ ~Started(h) => incremental_state[h] = <<>>
        /\ (Started(h) /\ kernel_size >= 2) =>
              /\ incremental_state[h] # <<>>
              /\ Len(Buffered(incremental_state, h)) >= 1
        /\ kernel_size = 1 => incremental_state[h] = <<>>
        /\ Len(Buffered(incremental_state, h)) <= kernel_size - 1

C13_StaysBuffered ==
    \A h \in Handles : incremental_state[h] # <<>> => incremental_state'[h] # <<>>

\* C13 (amended): a session starts without a buffer; for K >= 2 the first
\* forward call stores one, it stays stored across all later forward and
\* reorder calls and holds at most K-1 frames; for K = 1 no buffer is ever
\* stored and the session stays in the no-buffer state.
C13_SessionStates == []C13_States /\ [][C13_StaysBuffered]_vars

\* C13 witness: a buffered session, full buffer, just reordered
C13_Witness ==
    /\ last_call.op = "reorder"
    /\ kernel_size >= 2
    /\ Len(hist[last_call.h]) >= kernel_size
    /\ Len(Buffered(incremental_state, last_call.h)) = kernel_size - 1

----------------------------------------------------------------------------
(* Properties of the bulk path *)

\* entry (h, k) of the weight the bulk path convolves with, before any
\* quantization: numerator and denominator
BulkWeightNum(h, k) ==
    IF weight_dropout # 0 /\ passed[1].training
    THEN WNum(weight, weight_softmax, h, k) * passed[1].mask[h][k] * 10
    ELSE WNum(weight, weight_softmax, h, k)
BulkWeightDen(h) ==
    IF weight_dropout # 0 /\ passed[1].training
    THEN WDen(weight, weight_softmax, h) * (10 - weight_dropout)
    ELSE WDen(weight, weight_softmax, h)

\* position t, entry (b, c) of the convolution of the unquantized input with
\* the unquantized weight
UnquantizedAt(t, b, c) ==
    LET xs == passed[1].xs
        h  == HeadOf(c, num_heads)
    IN  <<SumTo([k \in 1..kernel_size |->
                    LET i == t + (k - 1) - padding_l
                    IN  IF i >= 1 /\ i <= Len(xs)
                        THEN BulkWeightNum(h, k) * xs[i][b][c] ELSE 0], kernel_size),
          BulkWeightDen(h)>>

OnGrid(v, num, lo, hi, n) ==
    IF hi = lo THEN v = lo * n
    ELSE \E q \in 0..n :
            /\ v = q * (hi - lo) + lo * n
            /\ (lo <= num /\ num <= hi) => 2 * (v - num * n) <= hi - lo
            /\ (lo <= num /\ num <= hi) => 2 * (num * n - v) <= hi - lo

----------------------------------------------------------------------------
(* Properties of the training driver *)

IsPrefix(s, t) == Len(s) <= Len(t) /\ \A i \in 1..Len(s) : s[i] = t[i]

\* positions of main before the resume block has run
BeforeResume == {"start", "init", "setup", "resume"}

\* C4: resuming from a checkpoint whose 'model' holds names of the exclusion
\* list completes, leaves the model's parameters with those names unchanged
\* and overwrites every other parameter present in both.
C4_ExcludedKeptOthersLoaded ==
    \A w \in world :
        (/\ args.resume
         /\ pc[w] \in {"dispatch", "failed"}
         /\ (DOMAIN checkpoint.model) \cap names # {})
        => /\ pc[w] # "failed"
           /\ \A k \in params \cap names : model[w][k] = 0
           /\ \A k \in (params \cap DOMAIN checkpoint.model) \ names :
                 model[w][k] = checkpoint.model[k]

\* C5: the criterion is the soft-target loss exactly when the Mixup transform
\* is installed; otherwise label smoothing with args.smoothing when that is
\* nonzero, otherwise plain cross-entropy.
C5_CriterionFollowsMixing ==
    \A w \in world :
        pc[w] \notin {"start", "init", "setup"} =>
            criterion[w] =
                IF mixup_fn[w]
                THEN [kind |-> "SoftTargetCrossEntropy", smoothing |-> 0]
                ELSE IF args.smoothing # 0
                     THEN [kind |-> "LabelSmoothingCrossEntropy",
                           smoothing |-> args.smoothing]
                     ELSE [kind |-> "CrossEntropyLoss", smoothing |-> 0]

\* the steps of one iteration of the epoch loop, in the claimed order
StepOrder == <<"train", "lr_step", "save", "evaluate", "best", "log">>
InIteration == {"train", "lr_step", "save", "evaluate", "best", "log"}

\* the lines of log.txt this run appended
RunLines == SelectSeq(log_txt, LAMBDA l : l.writer # -1)

\* C6: in every iteration the steps run in the order train, lr step, rolling
\* checkpoint, validation, best checkpoint, log append; from the validation
\* of epoch e on the rolling checkpoint records epoch e and the scheduler
\* state after the step of e; no step of an epoch starts before the log
\* append of the epoch before.
C6_EpochStepOrder ==
    \A w \in world :
        /\ IsPrefix(steps[w], StepOrder)
        /\ pc[w] \in InIteration => pc[w] = StepOrder[Len(steps[w]) + 1]
        /\ pc[w] \in {"loop", "done"} => steps[w] \in {<<>>, StepOrder}
        /\ (IsMainProcess(w) /\ pc[w] \in {"evaluate", "best", "log"}) =>
              /\ checkpoint_pth # <<>>
              /\ checkpoint_pth[1].epoch = epoch[w]
              /\ checkpoint_pth[1].lr_scheduler = epoch[w]
              /\ lr_scheduler[w] = epoch[w]
        /\ (IsMainProcess(w) /\ pc[w] \in InIteration) =>
              /\ Len(RunLines) = epoch[w] - start_epoch[w]
              /\ \A i \in 1..Len(RunLines) : RunLines[i].epoch < epoch[w]

\* C6 witness: the validation of a later epoch is about to start
C6_Witness ==
    /\ 0 \in world
    /\ pc[0] = "evaluate"
    /\ epoch[0] >= 1
    /\ Len(RunLines) >= 1
    /\ checkpoint_pth # <<>>

\* C7: optimizer, scheduler and starting epoch come from the checkpoint
\* exactly when the run resumes outside evaluation mode from a checkpoint
\* holding 'optimizer', 'lr_scheduler' and 'epoch'; the starting epoch is then
\* checkpoint epoch + 1 and the loop trains exactly the epochs checkpoint
\* epoch + 1 .. epochs - 1; otherwise the starting epoch is the configured one
\* and optimizer and scheduler are untouched.
C7_ResumePolicy ==
    \A w \in world :
        pc[w] \notin BeforeResume =>
            LET restored == /\ args.resume
                            /\ ~args.eval
                            /\ {"optimizer", "lr_scheduler", "epoch"} \subseteq checkpoint.has
                first == IF restored THEN checkpoint.epoch + 1 ELSE args.start_epoch
            IN  /\ start_epoch[w] = first
                /\ \A i \in 1..Len(trained[w]) : trained[w][i] = first + i - 1
                /\ \A i \in 1..Len(trained[w]) : trained[w][i] <= args.epochs - 1
                /\ (pc[w] \in {"done", "failed"} /\ ~args.eval) =>
                      Len(trained[w]) = Max(0, args.epochs - first)
                /\ trained[w] = <<>> =>
                      /\ optimizer[w] = IF restored THEN checkpoint.optimizer ELSE 0
                      /\ lr_scheduler[w] = IF restored THEN checkpoint.lr_scheduler ELSE -1

Front(s) == SubSeq(s, 1, Len(s) - 1)

\* the validation results max_accuracy already reflects
Processed == IF 0 \in world /\ pc[0] = "best" THEN Front(seen) ELSE seen

RECURSIVE MaxAcc(_)
\* the maximum of 0 and the accuracies of s
MaxAcc(s) == IF s = <<>> THEN 0 ELSE Max(s[Len(s)].acc, MaxAcc(Front(s)))

\* the epoch of the first entry of s with accuracy a
RECURSIVE FirstEpochWith(_, _)
FirstEpochWith(s, a) ==
    IF s = <<>> THEN -1
    ELSE IF s[1].acc = a THEN s[1].epoch ELSE FirstEpochWith(Tail(s), a)

C8_BestSoFar ==
    0 \in world =>
        /\ max_accuracy[0] = MaxAcc(Processed)
        /\ best_ckpt_pth # <<>> <=> MaxAcc(Processed) > 0
        /\ best_ckpt_pth # <<>> =>
              /\ best_ckpt_pth[1].epoch = FirstEpochWith(Processed, MaxAcc(Processed))
              /\ checkpoint_pth # <<>>
              /\ best_ckpt_pth[1].epoch <= checkpoint_pth[1].epoch

C8_NeverDecreases == \A w \in world : max_accuracy'[w] >= max_accuracy[w]

\* C8: max_accuracy never decreases and after each epoch is the maximum of 0
\* and the validation accuracies seen; the best checkpoint is written exactly
\* in the epochs whose accuracy is strictly greater than the best before, so
\* it records the earliest epoch with the current best accuracy, an epoch not
\* after the rolling checkpoint's.
C8_BestAccuracy == []C8_BestSoFar /\ [][C8_NeverDecreases]_vars

\* C8 witness: a second epoch that ties the best accuracy, not rewritten
C8_Witness ==
    /\ 0 \in world
    /\ pc[0] = "log"
    /\ Len(seen) = 3
    /\ seen[1].acc = 0
    /\ seen[2].acc = 1
    /\ seen[3].acc = 1
    /\ best_ckpt_pth # <<>>
    /\ best_ckpt_pth[1].epoch = seen[2].epoch

\* C9: in evaluation mode exactly one validation pass runs and nothing else:
\* no training pass, no scheduler step, no checkpoint and no log append,
\* whatever the epoch count, the start epoch and the resumed checkpoint.
C9_EvalOnly ==
    \A w \in world :
        args.eval =>
            /\ evals[w] <= 1
            /\ pc[w] \in {"done", "failed"} => evals[w] = 1
            /\ pc[w] \in BeforeResume \cup {"dispatch", "done", "failed"}
            /\ trained[w] = <<>>
            /\ steps[w] = <<>>
            /\ optimizer[w] = 0
            /\ lr_scheduler[w] = -1
            /\ checkpoint_pth = <<>>
            /\ best_ckpt_pth = <<>>
            /\ RunLines = <<>>

\* the restored log the run started from
Preseeded == IF args.restore_log # <<>> THEN args.restore_log[1] ELSE <<>>

\* epochs the main worker has completed (their log append included)
Completed == Len(trained[0]) - (IF pc[0] \in InIteration \ {"train"} THEN 1 ELSE 0)

C10_LogContent ==
    (0 \in world /\ pc[0] # "start") =>
        /\ \A i \in 1..Len(log_txt) : log_txt[i].writer \in {-1, 0}
        /\ IsPrefix(Preseeded, log_txt)
        /\ Len(log_txt) = Len(Preseeded) + Completed
        /\ \A i \in 1..Completed :
              /\ log_txt[Len(Preseeded) + i].writer = 0
              /\ log_txt[Len(Preseeded) + i].epoch = start_epoch[0] + i - 1

C10_AppendOnly == IsPrefix(log_txt, log_txt')

\* C10: only the main worker appends to log.txt; lines are never modified or
\* removed; every completed epoch adds one record, and the records of a run
\* carry the consecutive epochs start_epoch, start_epoch + 1, ...
C10_SingleWriterLog == []C10_LogContent /\ [][C10_AppendOnly]_vars

\* C10 witness: two workers ended a run of two epochs on a restored log
C10_Witness ==
    /\ world = Ranks
    /\ args.restore_log # <<>>
    /\ \A w \in world : pc[w] = "done"
    /\ Len(log_txt) = 3
    /\ Len(trained[1]) = 2

\* a fresh single-worker training run of exactly one epoch has ended
OneEpochRunDone ==
    /\ world = {0}
    /\ ~args.eval /\ ~args.resume
    /\ args.start_epoch = 0 /\ args.epochs = 1
    /\ args.output_dir /\ args.restore_log = <<>>
    /\ pc[0] = "done"

\* C14 as claimed: such a run ends with checkpoint.pth and best_ckpt.pth both
\* written and one line in log.txt, for every validation accuracy.
C14_BothCheckpointsAndOneLine ==
    OneEpochRunDone =>
        /\ checkpoint_pth # <<>>
        /\ best_ckpt_pth # <<>>
        /\ Len(log_txt) = 1

\* C14 (amended): such a run ends with checkpoint.pth written (epoch 0) and
\* one line in log.txt; best_ckpt.pth is written exactly when the validation
\* accuracy of the epoch is greater than 0.
C14_OneEpochRun ==
    OneEpochRunDone =>
        /\ checkpoint_pth # <<>> /\ checkpoint_pth[1].epoch = 0
        /\ Len(log_txt) = 1 /\ log_txt[1].epoch = 0
        /\ best_ckpt_pth # <<>> <=> test_acc[0] > 0
        /\ best_ckpt_pth # <<>> => best_ckpt_pth[1].epoch = 0

\* C14 witness: the run ended on a validation accuracy of 0
C14_Witness ==
    /\ OneEpochRunDone
    /\ test_acc[0] = 0
    /\ checkpoint_pth # <<>>
    /\ best_ckpt_pth = <<>>

\* l * b * w / 512 for the run's base learning rate, batch size and world size
ExpectedLr ==
    <<args.lr * args.batch_size * (IF args.distributed THEN Cardinality(world) ELSE 1), 512>>

C15_ScaledLr ==
    \A w \in world :
        IF pc[w] \in {"start", "init", "setup"}
        THEN lr[w] = <<args.lr, 1>> /\ optimizer_lr[w] = <<>> /\ scheduler_lr[w] = <<>>
        ELSE /\ FracEq(lr[w], ExpectedLr)
             /\ optimizer_lr[w] # <<>> /\ FracEq(optimizer_lr[w][1], ExpectedLr)
             /\ scheduler_lr[w] # <<>> /\ FracEq(scheduler_lr[w][1], ExpectedLr)
             /\ (IsMainProcess(w) /\ checkpoint_pth # <<>>) =>
                   FracEq(checkpoint_pth[1].args.lr, ExpectedLr)
             /\ (IsMainProcess(w) /\ best_ckpt_pth # <<>>) =>
                   FracEq(best_ckpt_pth[1].args.lr, ExpectedLr)

C15_ScaledOnce ==
    \A w \in world : pc[w] \notin {"start", "init", "setup"} => lr'[w] = lr[w]

\* C15: the learning rate given to the optimizer and scheduler constructors is
\* l * b * w / 512; args.lr is scaled once per run, also when resuming, and
\* the arguments saved in the checkpoints carry the scaled value.
C15_LearningRateScaling == []C15_ScaledLr /\ [][C15_ScaledOnce]_vars

\* C15 witness: a resumed run of two workers wrote its checkpoints
C15_Witness ==
    /\ world = Ranks
    /\ args.resume
    /\ args.lr # DefaultLr /\ args.batch_size # DefaultBatchSize
    /\ checkpoint_pth # <<>>
    /\ best_ckpt_pth # <<>>
    /\ \A w \in world : pc[w] = "done"

\* C16: in every iteration of the epoch loop, in every configuration, the
\* training sampler's epoch is the current epoch index when the training pass
\* of that epoch starts.
C16_SamplerEpochSet ==
    \A w \in world : pc[w] = "train" => SamplerEpoch(w) = epoch[w]

RECURSIVE SoloState(_)
\* the 'input_buffer' entry of a session that decoded the frames xs alone on
\* a layer nobody else uses: <<>> (none) or <<buffer>>
SoloState(xs) ==
    IF xs = <<>> \/ kernel_size = 1 THEN <<>>
    ELSE LET before == SoloState(Front(xs))
             window == IF before = <<>> THEN <<xs[Len(xs)]>>
                       ELSE Append(before[1], xs[Len(xs)])
         IN  <<IF Len(window) > kernel_size - 1 THEN Tail(window) ELSE window>>

\* the output of the last forward call of that session
SoloOutput(xs) ==
    LET before == SoloState(Front(xs))
        window == IF before = <<>> THEN <<xs[Len(xs)]>> ELSE Append(before[1], xs[Len(xs)])
    IN  Bmm(window, weight, kernel_size, num_heads, weight_softmax)

C17_AsIfAlone ==
    /\ \A h \in Handles : incremental_state[h] = SoloState(hist[h])
    /\ last_call.op = "forward" => TensorEq(output[1], SoloOutput(hist[last_call.h]))

C17_Frame ==
    /\ \A h \in Handles : last_call'.h # h => incremental_state'[h] = incremental_state[h]
    /\ last_call'.op = "bulk" => incremental_state' = incremental_state /\ hist' = hist

\* C17: a call made with one handle leaves the buffer stored under the other
\* unchanged, so each session's buffer and outputs are those of the session
\* run alone; a forward call without a handle changes no buffer, whatever
\* its bit-widths and the training mode.
C17_SessionsIsolated == []C17_AsIfAlone /\ [][C17_Frame]_vars

\* C17 witness: after a bulk call, session B decodes a frame while session A
\* holds a different buffer
C17_Witness ==
    /\ passed # <<>>
    /\ last_call.op = "forward" /\ last_call.h = "B"
    /\ kernel_size >= 2
    /\ incremental_state["A"] # <<>>
    /\ incremental_state["A"] # incremental_state["B"]

====
